---- MODULE Spec2Model ----
(***************************************************************************)
(* Model of the authentication routes of src/src/routes/auth.py: signup,   *)
(* login, refresh_token and confirmed_email, over the users table, the     *)
(* token service and the background e-mail task they call.                 *)
(*                                                                         *)
(* The route handlers are translated from the source.  The repository      *)
(* layer (src.repository.users), the token service (src.services.auth)     *)
(* and the mail task (src.services.email) are imported by the routes but   *)
(* their code is not part of the sources at hand; they are modelled from   *)
(* the specification (sections 3, 4.2 and 4.3).                            *)
(***************************************************************************)
EXTENDS Integers, FiniteSets, Sequences, TLC

\* ------------------------------------------------------------------ bounds
\* Largest value of the clock (in ticks).
MaxTime == 2

\* ---------------------------------------------------------- input domains
Emails == {"a@x.com", "b@x.com"}
Usernames == {"a"}
Passwords == {"pw", "other"}

\* ------------------------------------------------------ program constants
HTTP_200_OK == 200
HTTP_201_CREATED == 201
HTTP_400_BAD_REQUEST == 400
HTTP_401_UNAUTHORIZED == 401
HTTP_409_CONFLICT == 409
\* An exception no handler catches (AttributeError on a None user).
HTTP_500_INTERNAL == 500

ALREADY_EXISTS == "ALREADY_EXISTS"
EMAIL_ALREADY_CONFIRMED == "EMAIL_ALREADY_CONFIRMED"
EMAIL_CONFIRMED == "EMAIL_CONFIRMED"
EMAIL_NOT_CONFIRMED == "EMAIL_NOT_CONFIRMED"
INVALID_EMAIL == "INVALID_EMAIL"
INVALID_PASSWORD == "INVALID_PASSWORD"
INVALID_TOKEN == "INVALID_TOKEN"
SUCCESS_CREATE_USER == "SUCCESS_CREATE_USER"
VERIFICATION_ERROR == "VERIFICATION_ERROR"
\* Detail of the error raised inside the token service when a token does
\* not decode; the routes only propagate it.
COULD_NOT_VALIDATE == "COULD_NOT_VALIDATE"

\* expires_delta handed to create_access_token by login (seconds).
LOGIN_EXPIRES_DELTA == 7200
\* create_access_token called without expires_delta (refresh_token route).
DEFAULT_EXPIRES_DELTA == 0
\* Lifetime of a refresh token, in clock ticks.
RefreshTTL == 2

\* ------------------------------------------------------------------ state
VARIABLES
    users,      \* the users table: registered email -> row
    now,        \* the clock the token service reads
    issued,     \* the refresh and confirmation tokens signed so far
    tasks,      \* background_tasks: pending send_email calls
    resp,       \* the response of the request handled by the last step
    replaced,   \* refresh tokens superseded by a later, different one
    inflight    \* refresh requests that run concurrently, step by step

vars == <<users, now, issued, tasks, resp, replaced, inflight>>

\* --------------------------------------------------------------- tokens
\* A token is a signed payload {sub, scope, iat, ttl}; sig tells whether the
\* signature verifies under the service's key.  The lifetime of an access
\* token is carried as handed over and is never interpreted: no route
\* modelled here decodes an access token.
Token(sub, scope, iat, ttl) ==
    [sub |-> sub, scope |-> scope, iat |-> iat, ttl |-> ttl, sig |-> TRUE]

\* Python's None where a token is expected (users.refresh_token is nullable).
None == [sub |-> "", scope |-> "None", iat |-> 0, ttl |-> 0, sig |-> FALSE]

\* Tokens a client can make up without the key: the signature does not verify.
Forged ==
    { [sub |-> e, scope |-> s, iat |-> 0, ttl |-> RefreshTTL, sig |-> FALSE] :
        e \in Emails, s \in {"refresh_token"} }

\* What a client can put in a request: a refresh or confirmation token that
\* was handed out, the access token of the response it just received, or a
\* forgery.
Presentable == issued \cup ({resp.access_token} \ {None}) \cup Forged

\* ------------------------------------------------- token service (auth_service)
\* One-way hash of a password; the plain text is not the hash.
get_password_hash(password) == <<"bcrypt", password>>

verify_password(plain_password, hashed_password) ==
    hashed_password = <<"bcrypt", plain_password>>

create_access_token(sub, expires_delta) ==
    Token(sub, "access_token", now, expires_delta)

create_refresh_token(sub) == Token(sub, "refresh_token", now, RefreshTTL)

\* The confirmation token mailed by send_email; its expiry is not enforced.
create_email_token(sub) == Token(sub, "email_token", now, 0)

\* decode_refresh_token returns the subject iff the signature verifies, the
\* scope is the refresh scope and the token has not expired; otherwise it
\* raises 401.
RefreshTokenDecodes(token) ==
    /\ token.sig
    /\ token.scope = "refresh_token"
    /\ now < token.iat + token.ttl

decode_refresh_token(token) == token.sub

\* get_email_from_token returns the subject iff the signature verifies and
\* the scope is the confirmation scope; otherwise it raises.
EmailTokenDecodes(token) ==
    /\ token.sig
    /\ token.scope = "email_token"

get_email_from_token(token) == token.sub

\* ------------------------------------------- credential store (repository_users)
NoRow ==
    [email |-> "", username |-> "", password |-> <<"", "">>,
     confirmed |-> FALSE, refresh_token |-> None]

\* get_user_by_email(email) is None iff email is not a key of the table.
UserIsNone(email) == email \notin DOMAIN users

get_user_by_email(email) == IF UserIsNone(email) THEN NoRow ELSE users[email]

\* create_user: a new row, confirmed defaulting to false, no refresh token.
NewUser(email, username, password_hash) ==
    [email |-> email, username |-> username, password |-> password_hash,
     confirmed |-> FALSE, refresh_token |-> None]

create_user(email, username, password_hash) ==
    [e \in DOMAIN users \cup {email} |->
        IF e = email THEN NewUser(email, username, password_hash) ELSE users[e]]

\* update_token(user, token): user.refresh_token = token; commit.
update_token(email, token) ==
    [users EXCEPT ![email].refresh_token = token]

\* confirmed_email(email): user.confirmed = True; commit.
mark_confirmed(email) ==
    [users EXCEPT ![email].confirmed = TRUE]

\* ------------------------------------------------------------ responses
NoResp ==
    [op |-> "none", status |-> 0, detail |-> "", email |-> "", password |-> "",
     token |-> None, access_token |-> None, refresh_token |-> None, user |-> NoRow]

\* An HTTPException (or any response without a token pair).
Reply(op, status, detail, email, password, token) ==
    [op |-> op, status |-> status, detail |-> detail, email |-> email,
     password |-> password, token |-> token,
     access_token |-> None, refresh_token |-> None, user |-> NoRow]

\* {"access_token": ..., "refresh_token": ..., "token_type": "bearer"}
TokenReply(op, email, password, token, access, refresh) ==
    [op |-> op, status |-> HTTP_200_OK, detail |-> "bearer", email |-> email,
     password |-> password, token |-> token,
     access_token |-> access, refresh_token |-> refresh, user |-> NoRow]

\* The refresh requests whose steps interleave (two workers).
Requests == {"r1", "r2"}

\* A request that has not started: nothing read, nothing answered.
\* overlapped records, when the request ends, whether another request that
\* presents the same token had read the user and not yet written.
IdleCall ==
    [pc |-> "idle", token |-> None, seen |-> None, result |-> NoResp,
     overlapped |-> FALSE]

\* Refresh tokens of `email` that storing `stored` supersedes.
Superseded(email, stored) ==
    { t \in issued : t.scope = "refresh_token" /\ t.sub = email /\ t # stored }

\* ------------------------------------------------------------------ Init
Init ==
    /\ users = << >>
    /\ now = 0
    /\ issued = {}
    /\ tasks = {}
    /\ resp = NoResp
    /\ replaced = {}
    /\ inflight = [r \in Requests |-> IdleCall]

\* ------------------------------------------------------------- POST /signup
\* exist_user = get_user_by_email(body.email); if exist_user: raise 409
exist_user_unchecked(email) == FALSE

exist_user_confirmed_only(email) ==
    ~UserIsNone(email) /\ get_user_by_email(email).confirmed

exist_user(email) == ~UserIsNone(email)

\* background_tasks.add_task(send_email, new_user.email, new_user.username, ...)
SignupTasks_not_scheduled(email, username) == tasks

SignupTasks(email, username) ==
    tasks \cup {[email |-> email, username |-> username]}

signup(email, username, password) ==
    /\ IF exist_user(email)
         THEN /\ resp' = Reply("signup", HTTP_409_CONFLICT, ALREADY_EXISTS,
                               email, password, None)
              /\ UNCHANGED <<users, tasks>>
         ELSE LET hash == get_password_hash(password) IN
              /\ users' = create_user(email, username, hash)
              /\ tasks' = SignupTasks(email, username)
              /\ resp' = [Reply("signup", HTTP_201_CREATED, SUCCESS_CREATE_USER,
                                email, password, None)
                            EXCEPT !.user = NewUser(email, username, hash)]
    /\ UNCHANGED <<now, issued, replaced>>

\* -------------------------------------------------------------- POST /login
\* The three checks of login, in the order of the code; "" when all pass.
LoginCheck_unconfirmed_allowed(email, password) ==
    IF UserIsNone(email) THEN INVALID_EMAIL
    ELSE IF ~verify_password(password, get_user_by_email(email).password)
      THEN INVALID_PASSWORD
    ELSE ""

LoginCheck_password_first(email, password) ==
    IF UserIsNone(email) THEN INVALID_EMAIL
    ELSE IF ~verify_password(password, get_user_by_email(email).password)
      THEN INVALID_PASSWORD
    ELSE IF ~get_user_by_email(email).confirmed THEN EMAIL_NOT_CONFIRMED
    ELSE ""

LoginCheck_any_password(email, password) ==
    IF UserIsNone(email) THEN INVALID_EMAIL
    ELSE IF ~get_user_by_email(email).confirmed THEN EMAIL_NOT_CONFIRMED
    ELSE ""

LoginCheck(email, password) ==
    IF UserIsNone(email) THEN INVALID_EMAIL
    ELSE IF ~get_user_by_email(email).confirmed THEN EMAIL_NOT_CONFIRMED
    ELSE IF ~verify_password(password, get_user_by_email(email).password)
      THEN INVALID_PASSWORD
    ELSE ""

\* data={"sub": user.email}: the subject of the tokens login creates.
LoginSubject_username(user) == user.username

LoginSubject(user) == user.email

\* update_token(user, refresh_token, db): the token login persists.
LoginStores_access(access_token, refresh_token) == access_token

LoginStores(access_token, refresh_token) == refresh_token

\* login with the token persisted before the password is verified.
login_stores_before_password_check(email, password) ==
    LET user == get_user_by_email(email) IN
    IF UserIsNone(email) \/ ~user.confirmed
      THEN /\ resp' = Reply("login", HTTP_401_UNAUTHORIZED,
                            IF UserIsNone(email) THEN INVALID_EMAIL
                                                 ELSE EMAIL_NOT_CONFIRMED,
                            email, password, None)
           /\ UNCHANGED <<users, now, issued, tasks, replaced>>
    ELSE LET access_token == create_access_token(user.email, LOGIN_EXPIRES_DELTA)
             refresh_token == create_refresh_token(user.email)
         IN /\ users' = update_token(email, refresh_token)
            /\ issued' = issued \cup {refresh_token}
            /\ replaced' = replaced \cup Superseded(email, refresh_token)
            /\ resp' = IF verify_password(password, user.password)
                         THEN TokenReply("login", email, password, None,
                                         access_token, refresh_token)
                         ELSE Reply("login", HTTP_401_UNAUTHORIZED,
                                    INVALID_PASSWORD, email, password, None)
            /\ UNCHANGED <<now, tasks>>

login(email, password) ==
    LET user == get_user_by_email(email)
        failure == LoginCheck(email, password)
    IN
    IF failure # ""
      THEN /\ resp' = Reply("login", HTTP_401_UNAUTHORIZED, failure,
                            email, password, None)
           /\ UNCHANGED <<users, now, issued, tasks, replaced>>
    ELSE LET access_token == create_access_token(LoginSubject(user),
                                                 LOGIN_EXPIRES_DELTA)
             refresh_token == create_refresh_token(LoginSubject(user))
             stored == LoginStores(access_token, refresh_token)
         IN /\ users' = update_token(email, stored)
            /\ issued' = issued \cup {refresh_token}
            /\ replaced' = replaced \cup Superseded(email, stored)
            /\ resp' = TokenReply("login", email, password, None,
                                  access_token, refresh_token)
            /\ UNCHANGED <<now, tasks>>

\* ------------------------------------------------------- GET /refresh_token
\* if user.refresh_token != token
RefreshMismatch_never(user, token) == FALSE

RefreshMismatch_inverted(user, token) == user.refresh_token = token

RefreshMismatch_null_accepted(user, token) ==
    user.refresh_token # token /\ user.refresh_token # None

RefreshMismatch(user, token) == user.refresh_token # token

\* update_token(user, None, db): what a mismatch leaves stored.
MismatchStores_kept(user) == user.refresh_token

MismatchStores(user) == None

refresh(token) ==
    IF ~RefreshTokenDecodes(token)
      THEN /\ resp' = Reply("refresh", HTTP_401_UNAUTHORIZED, COULD_NOT_VALIDATE,
                            "", "", token)
           /\ UNCHANGED <<users, now, issued, tasks, replaced>>
    ELSE LET email == decode_refresh_token(token)
             user == get_user_by_email(email)
         IN
         IF UserIsNone(email)
           \* user.refresh_token on None: AttributeError, no handler
           THEN /\ resp' = Reply("refresh", HTTP_500_INTERNAL, "AttributeError",
                                 email, "", token)
                /\ UNCHANGED <<users, now, issued, tasks, replaced>>
         ELSE IF RefreshMismatch(user, token)
           THEN /\ users' = update_token(email, MismatchStores(user))
                /\ resp' = Reply("refresh", HTTP_401_UNAUTHORIZED, INVALID_TOKEN,
                                 email, "", token)
                /\ UNCHANGED <<now, issued, tasks, replaced>>
         ELSE LET access_token == create_access_token(email, DEFAULT_EXPIRES_DELTA)
                  refresh_token == create_refresh_token(email)
              IN /\ users' = update_token(email, refresh_token)
                 /\ issued' = issued \cup {refresh_token}
                 /\ replaced' = replaced \cup Superseded(email, refresh_token)
                 /\ resp' = TokenReply("refresh", email, "", token,
                                       access_token, refresh_token)
                 /\ UNCHANGED <<now, tasks>>

\* ----------------------------------------------- GET /confirmed_email/{token}
\* if user.confirmed: return {"message": EMAIL_ALREADY_CONFIRMED}
AlreadyConfirmed_unchecked(user) == FALSE

AlreadyConfirmed(user) == user.confirmed

\* if user is None: raise 400
ConfirmUserMissing_unchecked(email) == FALSE

ConfirmUserMissing(email) == UserIsNone(email)

confirmed_email(token) ==
    IF ~EmailTokenDecodes(token)
      THEN /\ resp' = Reply("confirmed_email", HTTP_400_BAD_REQUEST,
                            COULD_NOT_VALIDATE, "", "", token)
           /\ UNCHANGED <<users, now, issued, tasks, replaced>>
    ELSE LET email == get_email_from_token(token)
             user == get_user_by_email(email)
         IN
         IF ConfirmUserMissing(email)
           THEN /\ resp' = Reply("confirmed_email", HTTP_400_BAD_REQUEST,
                                 VERIFICATION_ERROR, email, "", token)
                /\ UNCHANGED <<users, now, issued, tasks, replaced>>
         ELSE IF AlreadyConfirmed(user)
           THEN /\ resp' = Reply("confirmed_email", HTTP_200_OK,
                                 EMAIL_ALREADY_CONFIRMED, email, "", token)
                /\ UNCHANGED <<users, now, issued, tasks, replaced>>
         ELSE /\ users' = mark_confirmed(email)
              /\ resp' = Reply("confirmed_email", HTTP_200_OK, EMAIL_CONFIRMED,
                               email, "", token)
              /\ UNCHANGED <<now, issued, tasks, replaced>>

\* ------------------------------------------------- background task send_email
\* The deferred task runs after the signup response.  When it succeeds it
\* mails a confirmation token for the address; when it fails the error is
\* swallowed and nothing is mailed.
send_email(task, delivered) ==
    /\ task \in tasks
    /\ tasks' = tasks \ {task}
    /\ issued' = IF delivered THEN issued \cup {create_email_token(task.email)}
                              ELSE issued
    /\ resp' = NoResp
    /\ UNCHANGED <<users, now, replaced>>

\* ------------------------------------------------------------------ clock
Tick ==
    /\ now < MaxTime
    /\ now' = now + 1
    /\ resp' = NoResp
    /\ UNCHANGED <<users, issued, tasks, replaced, inflight>>

\* ------------------------------------------------------------------ Next
\* Each request below runs to completion in one step.
DoSignup ==
    /\ \E e \in Emails, u \in Usernames, p \in Passwords : signup(e, u, p)
    /\ UNCHANGED inflight

DoLogin ==
    /\ \E e \in Emails, p \in Passwords : login(e, p)
    /\ UNCHANGED inflight

DoRefresh ==
    /\ \E t \in Presentable : refresh(t)
    /\ UNCHANGED inflight

DoConfirm ==
    /\ \E t \in Presentable : confirmed_email(t)
    /\ UNCHANGED inflight

DoSendEmail ==
    /\ \E t \in tasks, d \in BOOLEAN : send_email(t, d)
    /\ UNCHANGED inflight

Next ==
    \/ DoSignup
    \/ DoLogin
    \/ DoRefresh
    \/ DoConfirm
    \/ DoSendEmail
    \/ Tick

Spec == Init /\ [][Next]_vars

\* --------------------------------------------------- concurrent refreshes
\* The refresh_token route has no lock: between the read of the user (line
\* 78) and the comparison and write (lines 79-85) another worker's request
\* can run.  SpecRace runs two refresh requests as two steps each, the
\* read and the write, interleaved with each other and with the other
\* requests for one user.

\* Lines 76-78: decode the token, read the user.  A token that does not
\* decode, or a user that is None, ends the request here.
RefreshRead(r, token) ==
    /\ inflight[r].pc = "idle"
    /\ IF ~RefreshTokenDecodes(token)
         THEN LET result == Reply("refresh", HTTP_401_UNAUTHORIZED,
                                  COULD_NOT_VALIDATE, "", "", token)
              IN /\ resp' = result
                 /\ inflight' = [inflight EXCEPT ![r] =
                       [pc |-> "done", token |-> token, seen |-> None,
                        result |-> result, overlapped |-> FALSE]]
       ELSE IF UserIsNone(decode_refresh_token(token))
         THEN LET result == Reply("refresh", HTTP_500_INTERNAL, "AttributeError",
                                  decode_refresh_token(token), "", token)
              IN /\ resp' = result
                 /\ inflight' = [inflight EXCEPT ![r] =
                       [pc |-> "done", token |-> token, seen |-> None,
                        result |-> result, overlapped |-> FALSE]]
       ELSE /\ resp' = NoResp
            /\ inflight' = [inflight EXCEPT ![r] =
                  [pc |-> "read", token |-> token,
                   seen |-> get_user_by_email(decode_refresh_token(token)).refresh_token,
                   result |-> NoResp, overlapped |-> FALSE]]
    /\ UNCHANGED <<users, now, issued, tasks, replaced>>

\* Lines 79-86, on the user object read earlier: compare, then write.
RefreshWrite(r) ==
    /\ inflight[r].pc = "read"
    /\ LET token == inflight[r].token
           email == decode_refresh_token(token)
           user == [get_user_by_email(email) EXCEPT
                      !.refresh_token = inflight[r].seen]
           overlapped == \E o \in Requests \ {r} :
                            /\ inflight[o].pc = "read"
                            /\ inflight[o].token = token
       IN
       IF RefreshMismatch(user, token)
         THEN LET result == Reply("refresh", HTTP_401_UNAUTHORIZED,
                                  INVALID_TOKEN, email, "", token)
              IN /\ users' = update_token(email, MismatchStores(user))
                 /\ resp' = result
                 /\ inflight' = [inflight EXCEPT ![r].pc = "done",
                                                 ![r].result = result,
                                                 ![r].overlapped = overlapped]
                 /\ UNCHANGED <<now, issued, tasks, replaced>>
       ELSE LET access_token == create_access_token(email, DEFAULT_EXPIRES_DELTA)
                refresh_token == create_refresh_token(email)
                result == TokenReply("refresh", email, "", token,
                                     access_token, refresh_token)
            IN /\ users' = update_token(email, refresh_token)
               /\ issued' = issued \cup {refresh_token}
               /\ replaced' = replaced \cup Superseded(email, refresh_token)
               /\ resp' = result
               /\ inflight' = [inflight EXCEPT ![r].pc = "done",
                                               ![r].result = result,
                                               ![r].overlapped = overlapped]
               /\ UNCHANGED <<now, tasks>>

\* The one user and password of the race scenario.
RaceEmail == "a@x.com"
RacePassword == "pw"

RaceSignup ==
    /\ \E u \in Usernames : signup(RaceEmail, u, RacePassword)
    /\ UNCHANGED inflight

RaceSendEmail ==
    /\ \E t \in tasks : send_email(t, TRUE)
    /\ UNCHANGED inflight

RaceConfirm ==
    /\ \E t \in issued : confirmed_email(t)
    /\ UNCHANGED inflight

RaceLogin ==
    /\ login(RaceEmail, RacePassword)
    /\ UNCHANGED inflight

RaceRefreshRead == \E r \in Requests, t \in issued : RefreshRead(r, t)

RaceRefreshWrite == \E r \in Requests : RefreshWrite(r)

NextRace ==
    \/ RaceSignup
    \/ RaceSendEmail
    \/ RaceConfirm
    \/ RaceLogin
    \/ RaceRefreshRead
    \/ RaceRefreshWrite
    \/ Tick

SpecRace == Init /\ [][NextRace]_vars

\* ------------------------------------------- a token that outlived its user
\* Tokens are stateless: a confirmation token signed with the service's key
\* stays valid whatever happens to the users table.  SpecStale starts the
\* routes on an empty users table while a confirmation token signed earlier
\* for StaleEmail, an address nobody is registered under, is still in
\* somebody's mailbox.
StaleEmail == "gone@x.com"

InitStale ==
    /\ users = << >>
    /\ now = 0
    /\ issued = {create_email_token(StaleEmail)}
    /\ tasks = {}
    /\ resp = NoResp
    /\ replaced = {}
    /\ inflight = [r \in Requests |-> IdleCall]

SpecStale == InitStale /\ [][Next]_vars

TypeOK ==
    /\ DOMAIN users \subseteq Emails
    /\ now \in 0..MaxTime
    /\ \A t \in issued : t.sig /\ t.sub \in Emails /\ t.iat <= now
    /\ \A e \in DOMAIN users : users[e].refresh_token \in issued \cup {None}
    /\ replaced \subseteq issued

\* ------------------------------------------------------------ properties
\* The step is a request of kind op (resp' is the response it produced).
Handled(op) == resp'.op = op

NoTokenPair(r) == r.access_token = None /\ r.refresh_token = None

\* C1: a refresh call presenting a refresh token that a later successful
\* login or refresh of the same user has replaced by a different token is
\* answered 401 Unauthorized and returns no token pair.
C1_ReplacedTokenRejected ==
    [][ (Handled("refresh") /\ resp'.token \in replaced)
          => (resp'.status = HTTP_401_UNAUTHORIZED /\ NoTokenPair(resp')) ]_vars

\* A replaced, still unexpired token was presented and refused as a mismatch.
C1_Witness ==
    /\ resp.op = "refresh"
    /\ resp.token \in replaced
    /\ resp.detail = INVALID_TOKEN
    /\ resp.status = HTTP_401_UNAUTHORIZED

\* C2: login for a registered user whose confirmed flag is false answers 401
\* whatever the password, returns no tokens and stores nothing.
C2_UnconfirmedLoginFails ==
    [][ (Handled("login") /\ resp'.email \in DOMAIN users
            /\ ~users[resp'.email].confirmed)
          => /\ resp'.status = HTTP_401_UNAUTHORIZED
             /\ NoTokenPair(resp')
             /\ users' = users
             /\ issued' = issued ]_vars

\* An unconfirmed user was refused although the password was the right one.
C2_Witness ==
    /\ resp.op = "login"
    /\ resp.status = HTTP_401_UNAUTHORIZED
    /\ resp.email \in DOMAIN users
    /\ ~users[resp.email].confirmed
    /\ verify_password(resp.password, users[resp.email].password)

\* C3: signup with an email that is already registered answers 409 Conflict,
\* leaves every row of the users table as it was (no second user, same
\* password hash, confirmed flag and refresh token) and schedules no mail;
\* a registered email stays registered.
C3_DuplicateSignupRejected ==
    [][ /\ DOMAIN users \subseteq DOMAIN users'
        /\ (Handled("signup") /\ resp'.email \in DOMAIN users)
             => /\ resp'.status = HTTP_409_CONFLICT
                /\ users' = users
                /\ tasks' = tasks ]_vars

\* A second signup, with another password, hit a confirmed, logged-in user.
C3_Witness ==
    /\ resp.op = "signup"
    /\ resp.status = HTTP_409_CONFLICT
    /\ users[resp.email].confirmed
    /\ users[resp.email].refresh_token # None
    /\ ~verify_password(resp.password, users[resp.email].password)

\* C4: refresh returns a token pair only if the presented token equals the
\* refresh_token stored on the user its subject names.
C4_RefreshOnlyStoredToken ==
    [][ (Handled("refresh") /\ resp'.status = HTTP_200_OK)
          => /\ resp'.token.sub \in DOMAIN users
             /\ users[resp'.token.sub].refresh_token = resp'.token
             /\ resp'.token # None ]_vars

\* A refresh succeeded.
C4_Witness ==
    /\ resp.op = "refresh"
    /\ resp.status = HTTP_200_OK
    /\ resp.refresh_token # None

\* C5: a refresh whose decoded token differs from the stored one answers 401
\* and sets the stored token to null; while the stored token is null every
\* refresh for that user answers 401, and only a successful login of that
\* user stores a token again.
C5_MismatchClearsToken ==
    [][ /\ (Handled("refresh") /\ RefreshTokenDecodes(resp'.token)
              /\ resp'.token.sub \in DOMAIN users
              /\ users[resp'.token.sub].refresh_token # resp'.token)
             => /\ resp'.status = HTTP_401_UNAUTHORIZED
                /\ NoTokenPair(resp')
                /\ users' = [users EXCEPT ![resp'.token.sub].refresh_token = None]
        /\ \A e \in DOMAIN users :
             users[e].refresh_token = None
               => /\ (Handled("refresh") /\ resp'.token.sub = e)
                       => (resp'.status = HTTP_401_UNAUTHORIZED /\ NoTokenPair(resp'))
                  /\ users'[e].refresh_token # None
                       => (Handled("login") /\ resp'.email = e
                             /\ resp'.status = HTTP_200_OK) ]_vars

\* The newest token of a user, the one valid before a mismatch cleared the
\* stored token, was refused.
C5_Witness ==
    /\ resp.op = "refresh"
    /\ resp.detail = INVALID_TOKEN
    /\ resp.token \in issued \ replaced
    /\ users[resp.token.sub].refresh_token = None

\* C6: a user is created with confirmed = false; the flag changes only in a
\* confirmed_email call for that user's email that answers "email
\* confirmed", which sets it to true; once true it is never false again.
C6_ConfirmedOneWay ==
    [][ /\ \A e \in DOMAIN users' \ DOMAIN users : ~users'[e].confirmed
        /\ \A e \in DOMAIN users :
             /\ e \in DOMAIN users'
             /\ users[e].confirmed => users'[e].confirmed
             /\ users'[e].confirmed # users[e].confirmed
                  => /\ Handled("confirmed_email")
                     /\ resp'.email = e
                     /\ resp'.status = HTTP_200_OK
                     /\ resp'.detail = EMAIL_CONFIRMED
                     /\ users'[e].confirmed ]_vars

\* A confirmation flipped the flag of one user while another registered
\* user stayed unconfirmed.
C6_Witness ==
    /\ resp.op = "confirmed_email"
    /\ resp.detail = EMAIL_CONFIRMED
    /\ users[resp.email].confirmed
    /\ \E e \in DOMAIN users : ~users[e].confirmed

\* C7: confirmed_email for a user that is already confirmed answers 200 with
\* the "already confirmed" message and leaves the users table unchanged.
C7_ConfirmAgainIsNoOp ==
    [][ (Handled("confirmed_email") /\ EmailTokenDecodes(resp'.token)
            /\ resp'.token.sub \in DOMAIN users
            /\ users[resp'.token.sub].confirmed)
          => /\ resp'.status = HTTP_200_OK
             /\ resp'.detail = EMAIL_ALREADY_CONFIRMED
             /\ users' = users
             /\ issued' = issued
             /\ tasks' = tasks ]_vars

\* A logged-in user confirmed again: the stored refresh token is still there.
C7_Witness ==
    /\ resp.op = "confirmed_email"
    /\ resp.detail = EMAIL_ALREADY_CONFIRMED
    /\ users[resp.email].confirmed
    /\ users[resp.email].refresh_token # None

\* C8: login answers 401 "invalid email" for an unregistered email, 401
\* "email not confirmed" for a registered unconfirmed user whatever the
\* password, and "invalid password" only for a registered, confirmed user
\* whose password does not verify.
C8_LoginCheckOrder ==
    [][ Handled("login")
          => /\ resp'.email \notin DOMAIN users
                  => /\ resp'.status = HTTP_401_UNAUTHORIZED
                     /\ resp'.detail = INVALID_EMAIL
             /\ (resp'.email \in DOMAIN users /\ ~users[resp'.email].confirmed)
                  => /\ resp'.status = HTTP_401_UNAUTHORIZED
                     /\ resp'.detail = EMAIL_NOT_CONFIRMED
             /\ resp'.detail = INVALID_PASSWORD
                  => /\ resp'.status = HTTP_401_UNAUTHORIZED
                     /\ resp'.email \in DOMAIN users
                     /\ users[resp'.email].confirmed
                     /\ ~verify_password(resp'.password,
                                         users[resp'.email].password) ]_vars

\* An unconfirmed user logged in with a wrong password and was told that the
\* email is not confirmed.
C8_Witness ==
    /\ resp.op = "login"
    /\ resp.detail = EMAIL_NOT_CONFIRMED
    /\ resp.email \in DOMAIN users
    /\ ~verify_password(resp.password, users[resp.email].password)

\* A successful login or refresh returns a pair and leaves the returned
\* refresh token stored on the user.
ReturnedTokenStored ==
    ((Handled("login") \/ Handled("refresh")) /\ resp'.status = HTTP_200_OK)
      => /\ resp'.access_token # None
         /\ resp'.refresh_token # None
         /\ users'[resp'.email].refresh_token = resp'.refresh_token

\* C9 as stated: every successful login or refresh stores the refresh token
\* it returns, and a refresh presenting the token stored for its user (the
\* one last returned, no login or refresh having changed it) is accepted.
C9_StoredTokenAlwaysAccepted ==
    [][ /\ ReturnedTokenStored
        /\ (Handled("refresh") /\ resp'.token.sub \in DOMAIN users
              /\ users[resp'.token.sub].refresh_token = resp'.token)
             => resp'.status = HTTP_200_OK ]_vars

\* C9 as amended: every successful login or refresh stores the refresh token
\* it returns, and a refresh presenting the token stored for its user is
\* accepted provided the token has not expired.
C9_StoredTokenAcceptedUntilExpiry ==
    [][ /\ ReturnedTokenStored
        /\ (Handled("refresh") /\ resp'.token.sub \in DOMAIN users
              /\ users[resp'.token.sub].refresh_token = resp'.token
              /\ now < resp'.token.iat + resp'.token.ttl)
             => resp'.status = HTTP_200_OK ]_vars

\* A refresh accepted a token issued at an earlier tick and the new token it
\* returned is the stored one.
C9_Witness ==
    /\ resp.op = "refresh"
    /\ resp.status = HTTP_200_OK
    /\ resp.token.iat < now
    /\ users[resp.email].refresh_token = resp.refresh_token

\* C10: signup of an unregistered email answers 201 and stores the user,
\* unconfirmed, under the hash of the signup password, which no later call
\* changes; login with that password answers 401 while the user is
\* unconfirmed; confirmed_email with a confirmation token of that email
\* answers "email confirmed" and sets the flag; from then on login answers
\* 200 with a token pair for that password and 401 for any other.
C10_SignupConfirmLogin ==
    [][ /\ (Handled("signup") /\ resp'.email \notin DOMAIN users)
             => /\ resp'.status = HTTP_201_CREATED
                /\ resp'.email \in DOMAIN users'
                /\ users'[resp'.email] = resp'.user
                /\ verify_password(resp'.password, users'[resp'.email].password)
                /\ ~users'[resp'.email].confirmed
        /\ \A e \in DOMAIN users :
             e \in DOMAIN users' /\ users'[e].password = users[e].password
        /\ (Handled("login") /\ resp'.email \in DOMAIN users
              /\ ~users[resp'.email].confirmed
              /\ verify_password(resp'.password, users[resp'.email].password))
             => resp'.status = HTTP_401_UNAUTHORIZED /\ NoTokenPair(resp')
        /\ (Handled("confirmed_email") /\ EmailTokenDecodes(resp'.token)
              /\ resp'.token.sub \in DOMAIN users
              /\ ~users[resp'.token.sub].confirmed)
             => /\ resp'.status = HTTP_200_OK
                /\ resp'.detail = EMAIL_CONFIRMED
                /\ users'[resp'.token.sub].confirmed
        /\ (Handled("login") /\ resp'.email \in DOMAIN users
              /\ users[resp'.email].confirmed)
             => IF verify_password(resp'.password, users[resp'.email].password)
                  THEN /\ resp'.status = HTTP_200_OK
                       /\ resp'.access_token # None
                       /\ resp'.refresh_token # None
                  ELSE /\ resp'.status = HTTP_401_UNAUTHORIZED
                       /\ NoTokenPair(resp') ]_vars

\* The sequence ran to its end: a user that signed up and confirmed logged
\* in with the signup password and received a token pair.
C10_Witness ==
    /\ resp.op = "login"
    /\ resp.status = HTTP_200_OK
    /\ verify_password(resp.password, users[resp.email].password)
    /\ users[resp.email].confirmed
    /\ resp.refresh_token # None
    /\ resp.access_token # None

\* A pending send_email task was run in this step (delivered or failed).
TaskRan == tasks' # tasks /\ tasks' \subseteq tasks

\* C11: signup of an unregistered email answers 201 with the created user
\* and only queues the confirmation mail (nothing is mailed within the
\* request); a queued task always belongs to a user that already exists; and
\* when the task later runs, delivered or failed, the users table is left as
\* it was, so the user stays persisted and unconfirmed.
C11_MailIsDeferred ==
    [][ /\ (Handled("signup") /\ resp'.email \notin DOMAIN users)
             => /\ resp'.status = HTTP_201_CREATED
                /\ resp'.email \in DOMAIN users'
                /\ resp'.user = users'[resp'.email]
                /\ ~users'[resp'.email].confirmed
                /\ issued' = issued
                /\ \E t \in tasks' \ tasks : t.email = resp'.email
        /\ TaskRan => users' = users
        /\ \A t \in tasks' : t.email \in DOMAIN users' ]_vars

\* The mail of a user failed: no task is pending and no confirmation token
\* exists for the address, and the user is still registered, unconfirmed.
C11_Witness ==
    \E e \in DOMAIN users :
        /\ ~users[e].confirmed
        /\ \A t \in tasks : t.email # e
        /\ \A t \in issued : ~(t.scope = "email_token" /\ t.sub = e)

\* C12: confirmed_email with a token that decodes to an email no user is
\* registered under answers 400 Bad Request and changes nothing: no user is
\* created and no row, token or task is touched.
C12_ConfirmUnknownEmail ==
    [][ (Handled("confirmed_email") /\ EmailTokenDecodes(resp'.token)
            /\ resp'.token.sub \notin DOMAIN users)
          => /\ resp'.status = HTTP_400_BAD_REQUEST
             /\ resp'.detail = VERIFICATION_ERROR
             /\ users' = users
             /\ issued' = issued
             /\ tasks' = tasks ]_vars

\* A valid confirmation token for an unregistered email was refused while
\* another user, confirmed and logged in, was registered.
C12_Witness ==
    /\ resp.op = "confirmed_email"
    /\ resp.status = HTTP_400_BAD_REQUEST
    /\ EmailTokenDecodes(resp.token)
    /\ resp.token.sub \notin DOMAIN users
    /\ \E e \in DOMAIN users : users[e].confirmed /\ users[e].refresh_token # None

\* C14: a user whose stored refresh_token is not null is confirmed, and a
\* login or refresh that returns a token pair returns it to a confirmed
\* user.
C14_TokenImpliesConfirmed ==
    /\ \A e \in DOMAIN users :
         users[e].refresh_token # None => users[e].confirmed
    /\ (resp.op \in {"login", "refresh"} /\ resp.status = HTTP_200_OK)
         => (resp.email \in DOMAIN users /\ users[resp.email].confirmed)

\* A refresh, which never reads the confirmed flag, returned a pair to one
\* user while another registered user, unconfirmed, has no stored token.
C14_Witness ==
    /\ resp.op = "refresh"
    /\ resp.status = HTTP_200_OK
    /\ users[resp.email].confirmed
    /\ \E e \in DOMAIN users :
         ~users[e].confirmed /\ users[e].refresh_token = None

\* C15: every refresh token issued by login or refresh has a registered
\* user's email as its subject, and a refresh call ends with a token pair
\* (200) or with 401, never with the unhandled error of a None user.
C15_RefreshUserNeverNone ==
    /\ \A t \in issued : t.scope = "refresh_token" => t.sub \in DOMAIN users
    /\ resp.op = "refresh"
         => resp.status \in {HTTP_200_OK, HTTP_401_UNAUTHORIZED}

\* A refresh presenting an issued, decodable refresh token was answered
\* after the user lookup: refused as a mismatch.
C15_Witness ==
    /\ resp.op = "refresh"
    /\ resp.token \in issued
    /\ resp.token.scope = "refresh_token"
    /\ resp.detail = INVALID_TOKEN
    /\ resp.token.sub \in DOMAIN users

\* C16: a login that fails, whichever check rejects it, leaves the users
\* table, the issued tokens and the task queue as they were.
C16_FailedLoginChangesNothing ==
    [][ (Handled("login") /\ resp'.status # HTTP_200_OK)
          => /\ resp'.status = HTTP_401_UNAUTHORIZED
             /\ resp'.detail \in {INVALID_EMAIL, EMAIL_NOT_CONFIRMED,
                                  INVALID_PASSWORD}
             /\ users' = users
             /\ issued' = issued
             /\ tasks' = tasks
             /\ replaced' = replaced ]_vars

\* A login with a wrong password failed for a user whose stored refresh
\* token, issued at an earlier tick and not expired, is still the stored one.
C16_Witness ==
    /\ resp.op = "login"
    /\ resp.detail = INVALID_PASSWORD
    /\ users[resp.email].refresh_token # None
    /\ users[resp.email].refresh_token.iat < now
    /\ RefreshTokenDecodes(users[resp.email].refresh_token)

\* Request r ends in this step having read, as the stored token, the very
\* token it presents: it passed the equality check on what it read.
PassedCheck(r) ==
    /\ inflight[r].pc = "read"
    /\ inflight'[r].pc = "done"
    /\ inflight[r].seen = inflight[r].token

\* Request o, which ran concurrently with r (it wrote after r had read),
\* already returned a pair for the token that r presents too.
AlsoServed(o, r) ==
    /\ o # r
    /\ inflight[o].pc = "done"
    /\ inflight[o].overlapped
    /\ inflight[o].result.status = HTTP_200_OK
    /\ inflight[o].token = inflight[r].token

\* A refresh request that read its own token as the stored one returns a
\* pair and leaves its new refresh token stored, whatever was written since
\* it read.
BothPass(r) ==
    /\ inflight'[r].result.status = HTTP_200_OK
    /\ inflight'[r].result.access_token # None
    /\ inflight'[r].result.refresh_token # None
    /\ users'[inflight[r].token.sub].refresh_token
         = inflight'[r].result.refresh_token

\* C13 as stated: two refresh requests presenting the same stored token
\* both pass the check and both return a pair; the token written last is
\* the stored one and the refresh token returned to the other request is
\* not the stored one any more.
C13_RaceOtherTokenInvalid ==
    [][ \A r \in Requests :
          PassedCheck(r)
            => /\ BothPass(r)
               /\ \A o \in Requests :
                    AlsoServed(o, r)
                      => inflight[o].result.refresh_token
                           # users'[inflight[r].token.sub].refresh_token ]_vars

\* C13 as amended: both requests pass the check and both return a pair; the
\* token written last is the stored one, and the refresh token returned to
\* the other request is not the stored one any more unless it was issued at
\* the same clock reading as the last one, in which case the two returned
\* tokens are one and the same token, which is the stored one.
C13_RaceBothPass ==
    [][ \A r \in Requests :
          PassedCheck(r)
            => /\ BothPass(r)
               /\ \A o \in Requests :
                    AlsoServed(o, r)
                      => IF inflight[o].result.refresh_token.iat = now
                           THEN inflight[o].result.refresh_token
                                  = users'[inflight[r].token.sub].refresh_token
                           ELSE inflight[o].result.refresh_token
                                  # users'[inflight[r].token.sub].refresh_token
      ]_vars

\* Two overlapping requests presented the same token and both returned a
\* pair; the two returned refresh tokens are new and differ, one is stored
\* and the other is not.
C13_Witness ==
    /\ \A r \in Requests :
         /\ inflight[r].pc = "done"
         /\ inflight[r].result.status = HTTP_200_OK
         /\ inflight[r].result.refresh_token # inflight[r].token
    /\ \E r \in Requests : inflight[r].overlapped
    /\ inflight["r1"].token = inflight["r2"].token
    /\ inflight["r1"].seen = inflight["r2"].seen
    /\ inflight["r1"].result.refresh_token # inflight["r2"].result.refresh_token
    /\ \E r \in Requests :
         users[RaceEmail].refresh_token = inflight[r].result.refresh_token

====
